---- MODULE Spec2Model ----
(***************************************************************************)
(* Model of linkedin_job_scraper.py: NetworkManager.fetch_page (the retry  *)
(* loop and its classification of failures), check_internet_connection,    *)
(* LinkedInJobScraper.scrape (the pagination loop), parse_jobs and         *)
(* _deduplicate_jobs.                                                      *)
(***************************************************************************)
EXTENDS Integers, Sequences, FiniteSets, TLC

\* ---------------------------------------------------------------- bounds
MaxNumJobs == 2        \* num_jobs is drawn from 0..MaxNumJobs
MaxRetries == 2        \* the configured max_retries is drawn from 0..MaxRetries
MaxPageCards == 2      \* a page holds at most this many <li> candidates
MaxDedupLen == 3       \* longest list handed to _deduplicate_jobs on its own
MaxValueLen == 3       \* longest input string handed to validate_job_count
MaxHrefLen == 5        \* longest href handed to the url normalization
MaxCardElems == 3      \* a card holds at most this many elements
MaxCandidates == 3     \* a page handed to parse_jobs on its own holds at most this many <li>
MaxTextLen == 5        \* longest text handed to _clean_text on its own
MaxBelowZero == 1      \* how far below zero num_jobs and max_retries go

\* ------------------------------------------------------- program constants
JOBS_PER_PAGE == 25
max_consecutive_empty == 3
NumProbeHosts == 3
BlankDefault == 50      \* validate_job_count: return 50  # Default

\* ------------------------------------------------------------ value domains
NA == "N/A"
URLs == {"u1", "u2"}
Versions == {1, 2}          \* stands for the fields of a record other than url

\* A record as _parse_job_card returns it: url is the identity key.
JobRecords == [url : URLs, ver : Versions]

\* The listings the server serves: u1 is posted twice with differing fields,
\* u2 once.
ServedRecords == {r \in JobRecords : r.url = "u1" \/ r.ver = 1}

\* An <li> candidate of a page: one that _parse_job_card accepts, or one it
\* rejects (url or title is the sentinel).
Cards == ServedRecords \cup {[url |-> NA, ver |-> 1]}

RECURSIVE SeqsUpTo(_, _)
SeqsUpTo(S, n) ==
    IF n = 0 THEN {<<>>}
    ELSE LET shorter == SeqsUpTo(S, n - 1)
         IN  shorter \cup {Append(s, x) : s \in {t \in shorter : Len(t) = n - 1}, x \in S}

Pages == SeqsUpTo(Cards, MaxPageCards)

\* What session.get / raise_for_status can produce on one attempt: a response
\* with a status code, or an exception of the requests library raised by get.
Statuses == {200, 204, 403, 429, 500}
GetExceptions == {"Timeout", "ConnectionError", "SSLError", "RequestException"}
GetOutcomes ==
    {[exc |-> "none", status |-> s] : s \in Statuses}
    \cup {[exc |-> c, status |-> 0] : c \in GetExceptions}
NoOutcome == [exc |-> "none", status |-> 0]

\* Outcome of socket.create_connection for one probe host: it connects, or
\* it raises socket.timeout / socket.error (both OSError; create_connection
\* raises nothing else for these fixed addresses).
ProbeOutcomes == {"ok", "oserror"}
ProbeRuns == [1..NumProbeHosts -> ProbeOutcomes]
NoProbe == [h \in 1..NumProbeHosts |-> "unused"]

\* Strings are sequences of one-character strings.  str.strip() and
\* str.split() take these characters for whitespace.
IsSpace(c) == c \in {" ", "\t", "\n"}

RECURSIVE LStrip(_)
LStrip(t) == IF t # <<>> /\ IsSpace(Head(t)) THEN LStrip(Tail(t)) ELSE t

RECURSIVE RStrip(_)
RStrip(t) == IF t # <<>> /\ IsSpace(t[Len(t)]) THEN RStrip(SubSeq(t, 1, Len(t) - 1)) ELSE t

\* str.strip()
Strip(t) == RStrip(LStrip(t))

Min(a, b) == IF a < b THEN a ELSE b
Max(a, b) == IF a > b THEN a ELSE b

\* --------------------------------------------------- requests: library facts
\* requests.exceptions class hierarchy: the classes an exception is an
\* instance of.
Ancestors(cls) ==
    CASE cls = "Timeout"          -> {"Timeout", "RequestException"}
      [] cls = "ConnectionError"  -> {"ConnectionError", "RequestException"}
      [] cls = "SSLError"         -> {"SSLError", "ConnectionError", "RequestException"}
      [] cls = "HTTPError"        -> {"HTTPError", "RequestException"}
      [] cls = "RequestException" -> {"RequestException"}

\* Variant: every status other than 200 is raised as an HTTPError.
RaisesUnless200(status) == status # 200

\* Response.raise_for_status raises HTTPError for 4xx and 5xx.
RaisesForStatus(status) == status >= 400 /\ status < 600

\* bool(response) is response.ok: False for a status raise_for_status rejects.
ResponseTruthy(status) == ~RaisesForStatus(status)

\* ----------------------------------------------------------- fetch_page
\* The except clauses of fetch_page in their written order.
ExceptClauses == <<"Timeout", "ConnectionError", "HTTPError", "SSLError", "RequestException">>

\* The clause Python runs: the first one, in order, the exception is an
\* instance of.
MatchedClause(cls) ==
    LET hits == {i \in 1..Len(ExceptClauses) : ExceptClauses[i] \in Ancestors(cls)}
    IN  ExceptClauses[CHOOSE i \in hits : \A j \in hits : i <= j]

\* check_internet_connection: number of hosts it tries for a probe run.
ProbesMade(pr) ==
    LET stops == {h \in 1..NumProbeHosts : pr[h] # "oserror"}
    IN  IF stops = {} THEN NumProbeHosts
        ELSE CHOOSE h \in stops : \A k \in stops : h <= k

\* Variant: only the first probe host is consulted.
check_first_host_only(pr) == pr[1] = "ok"

\* check_internet_connection: True at the first host that connects; an
\* OSError moves on to the next host; False when no host is left.
check_internet_connection(pr) == pr[ProbesMade(pr)] = "ok"

\* status_code = e.response.status_code if e.response else None  (0 is None)
HTTPErrorStatusCode(status) == IF ResponseTruthy(status) THEN status ELSE 0

\* Variant: the retry sleep is taken after every failed attempt.
RetrySleepAlways(att, maxr) == 1

\* if attempt < max_retries - 1: time.sleep(2)   (number of sleeps taken)
RetrySleep(att, maxr) == IF att < maxr - 1 THEN 1 ELSE 0

\* One iteration of the for loop of fetch_page, for the outcome of the GET
\* and the outcomes the probe hosts would give.  ctl is how the iteration
\* ends; text tells a returned page from a returned None.
AttemptStep(o, pr, att, maxr) ==
    LET raisedCls == IF o.exc # "none" THEN o.exc
                     ELSE IF RaisesForStatus(o.status) THEN "HTTPError" ELSE "none"
        cont == [ctl |-> "continue", text |-> FALSE, error |-> "none",
                 slept |-> RetrySleep(att, maxr), probed |-> FALSE]
        ret(t) == [ctl |-> "return", text |-> t, error |-> "none",
                   slept |-> 0, probed |-> FALSE]
        raise(e, p) == [ctl |-> "raise", text |-> FALSE, error |-> e,
                        slept |-> 0, probed |-> p]
    IN  IF raisedCls = "none"
        THEN ret(o.status = 200)
        ELSE LET clause == MatchedClause(raisedCls)
             IN  CASE clause = "Timeout" -> cont
                   [] clause = "ConnectionError" ->
                        IF ~check_internet_connection(pr)
                        THEN raise("ConnectionError", TRUE)
                        ELSE [cont EXCEPT !.probed = TRUE]
                   [] clause = "HTTPError" ->
                        LET status_code == HTTPErrorStatusCode(o.status)
                        IN  IF status_code = 429 THEN raise("RateLimitError", FALSE)
                            ELSE IF status_code = 403 THEN raise("AccessBlockedError", FALSE)
                            ELSE cont
                   [] clause = "SSLError" -> raise("SSLError", FALSE)
                   [] clause = "RequestException" -> cont

\* ------------------------------------------------------ parsing and dedup
\* _parse_job_card returns the record unless a sentinel makes it return None.
CardAccepted(card) == card.url # NA

\* parse_jobs: the accepted candidates of the page, in document order.
parse_jobs(html) == SelectSeq(html, CardAccepted)

\* _deduplicate_jobs: the loop over jobs with seen_urls and unique_jobs.
\* A record without url reads as url "" and is dropped.
RECURSIVE DedupLoop(_, _, _, _)
DedupLoop(jobsIn, i, seen_urls, unique_jobs) ==
    IF i > Len(jobsIn) THEN unique_jobs
    ELSE LET url == jobsIn[i].url
         IN  IF url # "" /\ url \notin seen_urls
             THEN DedupLoop(jobsIn, i + 1, seen_urls \cup {url}, Append(unique_jobs, jobsIn[i]))
             ELSE DedupLoop(jobsIn, i + 1, seen_urls, unique_jobs)

\* Variant: seen_urls is never consulted.
deduplicate_without_seen(jobsIn) == SelectSeq(jobsIn, LAMBDA j : j.url # "")

deduplicate_jobs(jobsIn) == DedupLoop(jobsIn, 1, {}, <<>>)

\* Variant: the slice keeps one record too many.
TrimOneTooMany(l, n) == IF Len(l) > n + 1 THEN SubSeq(l, 1, n + 1) ELSE l

\* all_jobs[:num_jobs] when len(all_jobs) > num_jobs, as Python slices.
TrimToRequested(l, n) ==
    IF Len(l) > n
    THEN IF n >= 0 THEN SubSeq(l, 1, Min(n, Len(l)))
         ELSE SubSeq(l, 1, Max(Len(l) + n, 0))
    ELSE l

\* ------------------------------------------------------------------ state
VARIABLES
    pc,                 \* where the scrape call stands
    max_retries,        \* config value read by fetch_page
    num_jobs,           \* argument of scrape
    all_jobs,           \* scrape: accumulated records
    start,              \* scrape: pagination offset
    consecutive_empty,  \* scrape: consecutive pages without records
    html_content,       \* what the latest fetch_job_page call returned to scrape
    waited,             \* sleep of the current iteration, in units of delay
    attempt,            \* fetch_page: loop variable of the next iteration
    gets,               \* fetch_page: GETs issued by the current call
    sleeps,             \* fetch_page: retry sleeps taken by the current call
    lastOutcome,        \* fetch_page: outcome of the latest GET
    lastProbe,          \* fetch_page: probe run of the latest attempt, if any
    error,              \* exception that left fetch_page and scrape
    jobs,               \* the scraper's jobs attribute
    returned,           \* the list scrape returned
    job_title,          \* argument of scrape: the keywords, a string of characters
    served,             \* offsets of this run for which a page was returned
    exported,           \* what export_to_csv was given to write, once called
    show_progress_bar,  \* config value read by scrape
    pbar_closes,        \* scrape: pbar.close() calls of the current run
    fetched,            \* history: fetch_job_page calls of the run, where counted
    call_pc,            \* a function taken on its own: position
    call_args,          \* its arguments
    call_result,        \* its result
    dd_pc,              \* _deduplicate_jobs on its own: position
    dd_jobs,            \* its input
    dd_once,            \* its result
    dd_twice            \* the result of applying it to its result

scrapeVars == <<pc, max_retries, num_jobs, all_jobs, start, consecutive_empty,
                html_content, waited, attempt, gets, sleeps, lastOutcome,
                lastProbe, error, jobs, returned, job_title, served, exported,
                show_progress_bar, pbar_closes, fetched>>
fetchVars == <<attempt, gets, sleeps, lastOutcome, lastProbe>>
dedupVars == <<dd_pc, dd_jobs, dd_once, dd_twice>>
callVars == <<call_pc, call_args, call_result>>
vars == <<pc, max_retries, num_jobs, all_jobs, start, consecutive_empty,
          html_content, waited, attempt, gets, sleeps, lastOutcome,
          lastProbe, error, jobs, returned, job_title, served, exported,
          show_progress_bar, pbar_closes, fetched,
          dd_pc, dd_jobs, dd_once, dd_twice, call_pc, call_args, call_result>>

NoneHtml == [isNone |-> TRUE, cards |-> <<>>]
NotExported == [called |-> FALSE, path |-> FALSE, rows |-> <<>>]
TextHtml(page) == [isNone |-> FALSE, cards |-> page]

\* No scrape call has run: jobs is empty, the locals of scrape and
\* fetch_page do not exist yet.
NoRunYet ==
    /\ num_jobs = 0
    /\ all_jobs = <<>>
    /\ start = 0
    /\ consecutive_empty = 0
    /\ html_content = NoneHtml
    /\ waited = 0
    /\ attempt = 0
    /\ gets = 0
    /\ sleeps = 0
    /\ lastOutcome = NoOutcome
    /\ lastProbe = NoProbe
    /\ error = "none"
    /\ jobs = <<>>
    /\ returned = <<>>
    /\ job_title = <<>>
    /\ served = {}
    /\ exported = NotExported
    /\ pbar_closes = 0
    /\ fetched = 0

\* The scraper after __init__ : jobs is empty, the config is loaded.
ScraperConstructed ==
    /\ pc = "idle"
    /\ max_retries \in 0..MaxRetries
    /\ show_progress_bar = TRUE      \* the default of the config
    /\ NoRunYet

DedupIdle ==
    /\ dd_pc = "unused"
    /\ dd_jobs = <<>>
    /\ dd_once = <<>>
    /\ dd_twice = <<>>

CallIdle ==
    /\ call_pc = "unused"
    /\ call_args = <<>>
    /\ call_result = <<>>

Init == ScraperConstructed /\ DedupIdle /\ CallIdle

\* _deduplicate_jobs taken on its own: any list of records, also records
\* whose url is missing or empty.
DedupRecords == [url : URLs \cup {""}, ver : Versions]
DedupInputs == SeqsUpTo(DedupRecords, MaxDedupLen)

ScraperUnused ==
    /\ pc = "unused"
    /\ max_retries = 0
    /\ show_progress_bar = TRUE
    /\ NoRunYet

InitDedup ==
    /\ ScraperUnused
    /\ CallIdle
    /\ dd_pc = "input"
    /\ dd_jobs \in DedupInputs
    /\ dd_once = <<>>
    /\ dd_twice = <<>>

\* unique = _deduplicate_jobs(jobs)
DedupApply ==
    /\ dd_pc = "input"
    /\ dd_once' = deduplicate_jobs(dd_jobs)
    /\ dd_pc' = "once"
    /\ UNCHANGED <<dd_jobs, dd_twice>>
    /\ UNCHANGED scrapeVars
    /\ UNCHANGED callVars

\* _deduplicate_jobs(unique)
DedupReapply ==
    /\ dd_pc = "once"
    /\ dd_twice' = deduplicate_jobs(dd_once)
    /\ dd_pc' = "twice"
    /\ UNCHANGED <<dd_jobs, dd_once>>
    /\ UNCHANGED scrapeVars
    /\ UNCHANGED callVars

NextDedup == DedupApply \/ DedupReapply

SpecDedup == InitDedup /\ [][NextDedup]_vars

\* ----------------------------------------------------------------- scrape
\* scrape(job_title, location, n): the locals before the loop.
ScrapeLocals(n, title) ==
    /\ num_jobs' = n
    /\ job_title' = title
    /\ served' = {}
    /\ all_jobs' = <<>>
    /\ start' = 0
    /\ consecutive_empty' = 0
    /\ pc' = "loop"
    /\ pbar_closes' = 0
    /\ fetched' = 0
    /\ error' = "none"
    /\ UNCHANGED <<max_retries, html_content, waited, jobs, returned,
                   exported, show_progress_bar>>
    /\ UNCHANGED fetchVars
    /\ UNCHANGED dedupVars
    /\ UNCHANGED callVars

\* scrape called on a constructed scraper, with any arguments.
ScrapeCall(n, title) ==
    /\ pc = "idle"
    /\ ScrapeLocals(n, title)

\* get_user_input: job_title = input(...).strip(), asked again while empty.
PromptJobTitle(typed) ==
    /\ pc = "prompt"
    /\ job_title' = Strip(typed)
    /\ pc' = IF job_title' = <<>> THEN "prompt" ELSE "entered"
    /\ UNCHANGED <<max_retries, num_jobs, all_jobs, start, consecutive_empty,
                   html_content, waited, error, jobs, returned, served, exported>>
    /\ UNCHANGED fetchVars
    /\ UNCHANGED <<show_progress_bar, pbar_closes, fetched>>
    /\ UNCHANGED dedupVars
    /\ UNCHANGED callVars

\* main: scraper.scrape(job_title, location, num_jobs, experience_level) with
\* the title get_user_input returned.
MainScrape(n) ==
    /\ pc = "entered"
    /\ ScrapeLocals(n, job_title)

\* Control leaves the try block of scrape: the loop is over or an exception
\* passes through.
LeavesTry(next_pc) == next_pc \in {"post", "raised"}

\* Variant: the progress bar is left open.
finally_without_close(closes) == closes

\* finally: if use_progress_bar: pbar.close()
finally_clause(closes) == IF show_progress_bar THEN closes + 1 ELSE closes

\* Variant: the loop test lets the length reach the target and go on.
LoopGoesOnAtTarget(len, n) == len <= n

\* Variant: the loop is entered whatever was asked for.
LoopIgnoresTarget(len, n) == TRUE

\* while len(all_jobs) < num_jobs
LoopGoesOn(len, n) == len < n

\* while len(all_jobs) < num_jobs: ... fetch_job_page(...) enters fetch_page,
\* whose result is still to come.  fetched is kept when counted is set.
LoopTestStep(counted) ==
    /\ pc = "loop"
    /\ IF LoopGoesOn(Len(all_jobs), num_jobs)
       THEN /\ pc' = "fetch"
            /\ attempt' = 0
            /\ gets' = 0
            /\ sleeps' = 0
            /\ lastOutcome' = NoOutcome
            /\ lastProbe' = NoProbe
            /\ html_content' = NoneHtml
       ELSE /\ pc' = "post"
            /\ UNCHANGED fetchVars
            /\ UNCHANGED html_content
    /\ waited' = 0
    /\ UNCHANGED <<max_retries, num_jobs, all_jobs, start, consecutive_empty,
                   error, jobs, returned, job_title, served, exported>>
    /\ pbar_closes' = IF LeavesTry(pc') THEN finally_clause(pbar_closes) ELSE pbar_closes
    /\ fetched' = IF counted /\ pc' = "fetch" THEN fetched + 1 ELSE fetched
    /\ UNCHANGED show_progress_bar
    /\ UNCHANGED dedupVars
    /\ UNCHANGED callVars

LoopTest == LoopTestStep(FALSE)

\* The same step, with the fetch_job_page calls of the run counted.
LoopTestCounted == LoopTestStep(TRUE)

\* One iteration of for attempt in range(max_retries): the GET, and the
\* handling of its outcome.
GetAttempt(o, pr, page) ==
    /\ pc = "fetch"
    /\ attempt < max_retries
    /\ LET r == AttemptStep(o, pr, attempt, max_retries)
       IN  /\ gets' = gets + 1
           /\ sleeps' = sleeps + r.slept
           /\ lastOutcome' = o
           /\ lastProbe' = IF r.probed THEN pr ELSE NoProbe
           /\ attempt' = IF r.ctl = "continue" THEN attempt + 1 ELSE attempt
           /\ pc' = CASE r.ctl = "continue" -> "fetch"
                      [] r.ctl = "return" -> "got"
                      [] r.ctl = "raise" -> "raised"
           /\ html_content' = IF r.ctl = "return" /\ r.text THEN TextHtml(page)
                              ELSE NoneHtml
           /\ error' = r.error
    /\ UNCHANGED <<max_retries, num_jobs, all_jobs, start, consecutive_empty,
                   waited, jobs, returned, job_title, served, exported>>
    /\ pbar_closes' = IF LeavesTry(pc') THEN finally_clause(pbar_closes) ELSE pbar_closes
    /\ UNCHANGED <<show_progress_bar, fetched>>
    /\ UNCHANGED dedupVars
    /\ UNCHANGED callVars

\* The for loop of fetch_page ran out: return None.
RetriesExhausted ==
    /\ pc = "fetch"
    /\ attempt >= max_retries
    /\ pc' = "got"
    /\ html_content' = NoneHtml
    /\ UNCHANGED <<max_retries, num_jobs, all_jobs, start, consecutive_empty,
                   waited, error, jobs, returned, job_title, served, exported>>
    /\ UNCHANGED fetchVars
    /\ UNCHANGED <<show_progress_bar, pbar_closes, fetched>>
    /\ UNCHANGED dedupVars
    /\ UNCHANGED callVars

\* fetch_page has returned to scrape: its locals are gone.
FetchPageLeft ==
    /\ attempt' = 0
    /\ gets' = 0
    /\ sleeps' = 0
    /\ lastOutcome' = NoOutcome
    /\ lastProbe' = NoProbe

\* Variant: the plain delay is slept after a failed fetch.
SleepAfterNoneOnce(ended) == IF ended THEN 0 ELSE 1

\* Sleep of an iteration whose fetch returned None, in units of delay:
\* break, or time.sleep(delay * 2).
SleepAfterNone(ended) == IF ended THEN 0 ELSE 2

\* Variant: the delay is slept even after the iteration that ends the loop.
SleepEvenAtEnd(ended) == 1

\* Sleep of an iteration that parsed a page: break, or time.sleep(delay).
SleepAfterPage(ended) == IF ended THEN 0 ELSE 1

\* Variant: a failed fetch is not counted.
FailedFetchNotCounted(ce) == ce

\* consecutive_empty after a fetch that returned None.
CountFailedFetch(ce) == ce + 1

\* scrape, html_content is None.
HandleNone ==
    /\ pc = "got"
    /\ html_content.isNone
    /\ consecutive_empty' = CountFailedFetch(consecutive_empty)
    /\ pc' = IF consecutive_empty' >= max_consecutive_empty THEN "post" ELSE "wait"
    /\ waited' = SleepAfterNone(consecutive_empty' >= max_consecutive_empty)
    /\ UNCHANGED <<max_retries, num_jobs, all_jobs, start, html_content,
                   error, jobs, returned, job_title, served, exported>>
    /\ FetchPageLeft
    /\ pbar_closes' = IF LeavesTry(pc') THEN finally_clause(pbar_closes) ELSE pbar_closes
    /\ UNCHANGED <<show_progress_bar, fetched>>
    /\ UNCHANGED dedupVars
    /\ UNCHANGED callVars

\* Variant: a page with records leaves the counter alone.
CountWithoutReset(ce, page_jobs) == IF page_jobs = <<>> THEN ce + 1 ELSE ce

\* consecutive_empty after a parsed page.
NextConsecutiveEmpty(ce, page_jobs) == IF page_jobs = <<>> THEN ce + 1 ELSE 0

\* Variant: the offset is not advanced.
OffsetStuck(s) == s

\* start += JOBS_PER_PAGE
AdvanceOffset(s) == s + JOBS_PER_PAGE

\* Variant: the page's records are put in front of the accumulation.
AccumulateInFront(acc, page_jobs) == page_jobs \o acc

\* all_jobs after a parsed page: all_jobs.extend(page_jobs).
Accumulate(acc, page_jobs) == acc \o page_jobs

\* scrape, a page was returned: parse, count, extend, advance, test, wait.
HandlePage ==
    /\ pc = "got"
    /\ ~html_content.isNone
    /\ LET page_jobs == parse_jobs(html_content.cards)
       IN  /\ consecutive_empty' = NextConsecutiveEmpty(consecutive_empty, page_jobs)
           /\ all_jobs' = IF page_jobs = <<>> THEN all_jobs
                          ELSE Accumulate(all_jobs, page_jobs)
           /\ IF page_jobs = <<>> /\ consecutive_empty' >= max_consecutive_empty
              THEN /\ start' = start
                   /\ pc' = "post"
                   /\ waited' = SleepAfterPage(TRUE)
              ELSE /\ start' = AdvanceOffset(start)
                   /\ pc' = IF Len(all_jobs') >= num_jobs THEN "post" ELSE "wait"
                   /\ waited' = SleepAfterPage(Len(all_jobs') >= num_jobs)
    /\ served' = served \cup {start}
    /\ UNCHANGED <<max_retries, num_jobs, html_content, error, jobs, returned,
                   job_title, exported>>
    /\ FetchPageLeft
    /\ pbar_closes' = IF LeavesTry(pc') THEN finally_clause(pbar_closes) ELSE pbar_closes
    /\ UNCHANGED <<show_progress_bar, fetched>>
    /\ UNCHANGED dedupVars
    /\ UNCHANGED callVars

\* time.sleep(delay) or time.sleep(delay * 2) returns; back to the loop test.
Wait ==
    /\ pc = "wait"
    /\ pc' = "loop"
    /\ UNCHANGED <<max_retries, num_jobs, all_jobs, start, consecutive_empty,
                   html_content, waited, error, jobs, returned, job_title,
                   served, exported>>
    /\ UNCHANGED fetchVars
    /\ UNCHANGED <<show_progress_bar, pbar_closes, fetched>>
    /\ UNCHANGED dedupVars
    /\ UNCHANGED callVars

\* After the loop: deduplicate, trim, store in self.jobs, return.
Finish ==
    /\ pc = "post"
    /\ all_jobs' = TrimToRequested(deduplicate_jobs(all_jobs), num_jobs)
    /\ jobs' = all_jobs'
    /\ returned' = all_jobs'
    /\ pc' = "done"
    /\ UNCHANGED <<max_retries, num_jobs, start, consecutive_empty,
                   html_content, waited, error, job_title, served, exported>>
    /\ UNCHANGED fetchVars
    /\ UNCHANGED <<show_progress_bar, pbar_closes, fetched>>
    /\ UNCHANGED dedupVars
    /\ UNCHANGED callVars

\* KeyboardInterrupt at a blocking point of the run (the GET and the retry
\* sleep inside fetch_page, the sleep between iterations): no except clause
\* of fetch_page or scrape catches it, the finally clause only closes the
\* progress bar, and the exception leaves scrape.
Interrupt ==
    /\ pc \in {"fetch", "wait"}
    /\ pc' = "raised"
    /\ error' = "KeyboardInterrupt"
    /\ UNCHANGED <<max_retries, num_jobs, all_jobs, start, consecutive_empty,
                   html_content, waited, jobs, returned, job_title, served,
                   exported>>
    /\ UNCHANGED fetchVars
    /\ pbar_closes' = IF LeavesTry(pc') THEN finally_clause(pbar_closes) ELSE pbar_closes
    /\ UNCHANGED <<show_progress_bar, fetched>>
    /\ UNCHANGED dedupVars
    /\ UNCHANGED callVars

\* export_to_csv after scrape returned or raised: None when self.jobs is
\* empty, else the rows of self.jobs are written (export_to_json has the same
\* guard and writes the same list).
export_to_csv ==
    /\ pc \in {"done", "raised"}
    /\ ~exported.called
    /\ exported' = [called |-> TRUE, path |-> jobs # <<>>, rows |-> jobs]
    /\ UNCHANGED <<pc, max_retries, num_jobs, all_jobs, start, consecutive_empty,
                   html_content, waited, error, jobs, returned, job_title, served>>
    /\ UNCHANGED fetchVars
    /\ UNCHANGED <<show_progress_bar, pbar_closes, fetched>>
    /\ UNCHANGED dedupVars
    /\ UNCHANGED callVars

\* The keywords of the runs explored: scrape does not look at them.
ValidKeywords == {<<"d", "e", "v">>}

\* The inputs of one attempt that can matter to it: the probe hosts are only
\* contacted after a failed connection, a body is only read from a 200.
ProbeRunsFor(o) ==
    IF o.exc # "none" /\ "ConnectionError" \in Ancestors(o.exc) THEN ProbeRuns ELSE {NoProbe}
PagesFor(o) ==
    IF o.exc = "none" /\ o.status = 200 THEN Pages ELSE {<<>>}

Next ==
    \/ \E n \in 0..MaxNumJobs, title \in ValidKeywords : ScrapeCall(n, title)
    \/ LoopTest
    \/ \E o \in GetOutcomes :
          \E pr \in ProbeRunsFor(o), page \in PagesFor(o) : GetAttempt(o, pr, page)
    \/ RetriesExhausted
    \/ HandleNone
    \/ HandlePage
    \/ Wait
    \/ Finish
    \/ Interrupt
    \/ export_to_csv

Spec == Init /\ [][Next]_vars

\* ---------------------------------------------------- the loop of scrape
\* The loop of scrape over the three kinds of GET outcome that make a
\* fetch end differently (a page, None at once, a transient failure), and
\* over pages with two, one and no accepted records.
LoopOutcomes ==
    {[exc |-> "none", status |-> 200], [exc |-> "none", status |-> 204],
     [exc |-> "Timeout", status |-> 0]}
LoopPages ==
    {<<>>, <<[url |-> NA, ver |-> 1]>>, <<[url |-> "u1", ver |-> 1]>>,
     <<[url |-> "u1", ver |-> 1], [url |-> "u2", ver |-> 1]>>}
LoopPagesFor(o) == IF o.exc = "none" /\ o.status = 200 THEN LoopPages ELSE {<<>>}

NextLoop ==
    \/ \E n \in 0..MaxNumJobs, title \in ValidKeywords : ScrapeCall(n, title)
    \/ LoopTest
    \/ \E o \in LoopOutcomes : \E page \in LoopPagesFor(o) : GetAttempt(o, NoProbe, page)
    \/ RetriesExhausted
    \/ HandleNone
    \/ HandlePage
    \/ Wait
    \/ Finish

SpecLoop == Init /\ [][NextLoop]_vars

\* The loop with its fetch_job_page calls counted.  Every fetch returns, so
\* every step that is enabled is eventually taken.
NextCount ==
    \/ \E n \in 0..MaxNumJobs, title \in ValidKeywords : ScrapeCall(n, title)
    \/ LoopTestCounted
    \/ \E o \in LoopOutcomes : \E page \in LoopPagesFor(o) : GetAttempt(o, NoProbe, page)
    \/ RetriesExhausted
    \/ HandleNone
    \/ HandlePage
    \/ Wait
    \/ Finish

SpecCount == Init /\ [][NextCount]_vars /\ WF_vars(NextCount)

\* --------------------------------------------------- the exits of scrape
\* Runs that end by return or by an exception, with the progress bar on or
\* off, on a scraper that may hold the records of an earlier run.
NoHostConnects == [h \in 1..NumProbeHosts |-> "oserror"]
ExitOutcomes == LoopOutcomes \cup {[exc |-> "ConnectionError", status |-> 0]}

InitExit ==
    /\ pc = "idle"
    /\ max_retries \in 0..MaxRetries
    /\ show_progress_bar \in BOOLEAN
    /\ NoRunYet
    /\ DedupIdle
    /\ CallIdle

\* scrape called again on a scraper whose earlier call returned or raised.
ScrapeAgain(n, title) ==
    /\ pc \in {"done", "raised"}
    /\ ~exported.called
    /\ ScrapeLocals(n, title)

NextExit ==
    \/ \E n \in 0..MaxNumJobs, title \in ValidKeywords : ScrapeCall(n, title)
    \/ \E n \in 0..MaxNumJobs, title \in ValidKeywords : ScrapeAgain(n, title)
    \/ LoopTest
    \/ \E o \in ExitOutcomes : \E page \in LoopPagesFor(o) : GetAttempt(o, NoHostConnects, page)
    \/ RetriesExhausted
    \/ HandleNone
    \/ HandlePage
    \/ Wait
    \/ Finish
    \/ Interrupt
    \/ export_to_csv

SpecExit == InitExit /\ [][NextExit]_vars

\* ------------------------------------------------ the keywords of a query
\* What a user types at the prompt, or a caller passes to scrape.
TypedKeywords == {<<>>, <<" ">>, <<"d">>, <<" ", "d", " ">>}

\* main prompts for the keywords, or scrape is called directly.
InitQuery ==
    /\ pc \in {"prompt", "idle"}
    /\ max_retries \in 0..MaxRetries
    /\ show_progress_bar = TRUE
    /\ NoRunYet
    /\ DedupIdle
    /\ CallIdle

NextQuery ==
    \/ \E typed \in TypedKeywords : PromptJobTitle(typed)
    \/ \E n \in 1..MaxNumJobs : MainScrape(n)
    \/ \E n \in 0..MaxNumJobs, title \in TypedKeywords : ScrapeCall(n, title)
    \/ LoopTest
    \/ \E o \in GetOutcomes :
          \E pr \in ProbeRunsFor(o), page \in PagesFor(o) : GetAttempt(o, pr, page)
    \/ RetriesExhausted
    \/ HandleNone
    \/ HandlePage
    \/ Wait
    \/ Finish

SpecQuery == InitQuery /\ [][NextQuery]_vars

\* ------------------------------------------------- the two-page scenario
\* scrape(num_jobs = 10) against a server whose first page has 8 records
\* with distinct urls and whose second page has 5 records, 2 of them (at any
\* two positions, with fields of their own) under urls of the first page.
ScenarioUrls == <<"s1", "s2", "s3", "s4", "s5", "s6", "s7", "s8", "s9", "s10", "s11">>
ScenarioFirstPage == [i \in 1..8 |-> [url |-> ScenarioUrls[i], ver |-> 1]]
ScenarioSecondPages ==
    {[k \in 1..5 |->
         IF k \in P
         THEN [url |-> ScenarioUrls[f[k]], ver |-> 2]
         ELSE [url |-> ScenarioUrls[8 + Cardinality({j \in 1..k : j \notin P})], ver |-> 1]] :
       P \in {Q \in SUBSET (1..5) : Cardinality(Q) = 2}, f \in [1..5 -> 1..8]}
ScenarioPagesAt(offset) ==
    IF offset = 0 THEN {ScenarioFirstPage}
    ELSE IF offset = JOBS_PER_PAGE THEN ScenarioSecondPages
    ELSE {}

InitScenario == Init /\ max_retries >= 1

NextScenario ==
    \/ \E title \in ValidKeywords : ScrapeCall(10, title)
    \/ LoopTest
    \/ \E page \in ScenarioPagesAt(start) :
          GetAttempt([exc |-> "none", status |-> 200], NoProbe, page)
    \/ HandlePage
    \/ Wait
    \/ Finish

SpecScenario == InitScenario /\ [][NextScenario]_vars

\* ------------------------------------------------------ validate_job_count
\* The characters an input string is built from.
ValueChars == {" ", "-", "+", "0", "1", "5", "x"}
DigitValue == [c \in {"0", "1", "5"} |-> IF c = "0" THEN 0 ELSE IF c = "1" THEN 1 ELSE 5]
IsDigits(t) == t # <<>> /\ \A i \in 1..Len(t) : t[i] \in DOMAIN DigitValue

RECURSIVE DecimalValue(_)
DecimalValue(t) ==
    IF t = <<>> THEN 0
    ELSE 10 * DecimalValue(SubSeq(t, 1, Len(t) - 1)) + DigitValue[t[Len(t)]]

\* int(value): surrounding whitespace is ignored, one sign may lead, the
\* rest must be digits; anything else is a ValueError.
IntOf(value) ==
    LET t == Strip(value)
        signed == t # <<>> /\ Head(t) \in {"-", "+"}
        digits == IF signed THEN Tail(t) ELSE t
    IN IF ~IsDigits(digits) THEN [ok |-> FALSE, num |-> 0]
       ELSE [ok |-> TRUE,
             num |-> IF signed /\ Head(t) = "-" THEN 0 - DecimalValue(digits)
                     ELSE DecimalValue(digits)]

\* The configured max_jobs_limit values tried, on both sides of the count
\* returned for blank input.
MaxLimits == {1, BlankDefault - 1, BlankDefault, BlankDefault + 1, 500}

ValidateRaised == [raised |-> TRUE, num |-> 0]
ValidateReturned(n) == [raised |-> FALSE, num |-> n]

ExceedsLimit(num, max_limit) == num > max_limit

validate_job_count(value, max_limit) ==
    IF Strip(value) = <<>> THEN ValidateReturned(BlankDefault)
    ELSE LET parsed == IntOf(value)
         IN IF ~parsed.ok THEN ValidateRaised
            ELSE IF parsed.num <= 0 THEN ValidateRaised
            ELSE IF ExceedsLimit(parsed.num, max_limit) THEN ValidateRaised
            ELSE ValidateReturned(parsed.num)

InitValidate ==
    /\ ScraperUnused
    /\ DedupIdle
    /\ call_pc = "call"
    /\ call_args \in [value : SeqsUpTo(ValueChars, MaxValueLen), max_limit : MaxLimits]
    /\ call_result = <<>>

ValidateCall ==
    /\ call_pc = "call"
    /\ call_result' = validate_job_count(call_args.value, call_args.max_limit)
    /\ call_pc' = IF call_result'.raised THEN "raised" ELSE "returned"
    /\ UNCHANGED call_args
    /\ UNCHANGED scrapeVars
    /\ UNCHANGED fetchVars
    /\ UNCHANGED dedupVars

NextValidate == ValidateCall

SpecValidate == InitValidate /\ [][NextValidate]_vars

\* ------------------------------------------------------- url normalization
\* "https://www.linkedin.com" and 'http', character by character.
LinkedInOrigin ==
    <<"h", "t", "t", "p", "s", ":", "/", "/", "w", "w", "w", ".",
      "l", "i", "n", "k", "e", "d", "i", "n", ".", "c", "o", "m">>
HttpPrefix == <<"h", "t", "t", "p">>

\* The characters an href is built from.
HrefChars == {"/", "?", "h", "t", "p"}
Hrefs == SeqsUpTo(HrefChars, MaxHrefLen) \ {<<>>}

\* str.startswith
StartsWith(t, prefix) ==
    Len(t) >= Len(prefix) /\ SubSeq(t, 1, Len(prefix)) = prefix

Contains(t, c) == \E i \in 1..Len(t) : t[i] = c

\* str.split(c)[0] : the part before the first c, all of t when c is absent.
SplitFirst(t, c) ==
    IF ~Contains(t, c) THEN t
    ELSE LET i == CHOOSE k \in 1..Len(t) : t[k] = c /\ \A m \in 1..(k - 1) : t[m] # c
         IN SubSeq(t, 1, i - 1)

\* if job_url.startswith('/') ... elif not job_url.startswith('http') ...
WithOrigin(job_url) ==
    IF StartsWith(job_url, <<"/">>) THEN LinkedInOrigin \o job_url
    ELSE IF ~StartsWith(job_url, HttpPrefix) THEN LinkedInOrigin \o <<"/">> \o job_url
    ELSE job_url

\* A normalization that keeps the query string.
KeepQuery(job_url) == job_url
\* job_url.split('?')[0] if '?' in job_url else job_url
StripQuery(job_url) == IF Contains(job_url, "?") THEN SplitFirst(job_url, "?") ELSE job_url

NormalizeUrl(href) == StripQuery(WithOrigin(href))

InitUrl ==
    /\ ScraperUnused
    /\ DedupIdle
    /\ call_pc = "call"
    /\ call_args \in [href : Hrefs]
    /\ call_result = <<>>

\* The url of a card whose link carries href.
NormalizeCall ==
    /\ call_pc = "call"
    /\ call_result' = <<NormalizeUrl(call_args.href)>>
    /\ call_pc' = "normalized"
    /\ UNCHANGED call_args
    /\ UNCHANGED scrapeVars
    /\ UNCHANGED fetchVars
    /\ UNCHANGED dedupVars

\* The url of a card whose link carries an already normalized url.
NormalizeAgain ==
    /\ call_pc = "normalized"
    /\ call_result' = Append(call_result, NormalizeUrl(call_result[1]))
    /\ call_pc' = "renormalized"
    /\ UNCHANGED call_args
    /\ UNCHANGED scrapeVars
    /\ UNCHANGED fetchVars
    /\ UNCHANGED dedupVars

NextUrl == NormalizeCall \/ NormalizeAgain

SpecUrl == InitUrl /\ [][NextUrl]_vars

\* ---------------------------------------------------------- _parse_job_card
\* "N/A" character by character: the sentinel of the text fields.
NAText == <<"N", "/", "A">>

\* text.split() joined with ' ' for a text without whitespace at its ends:
\* every run of whitespace becomes one space.
RECURSIVE Collapse(_)
Collapse(t) ==
    IF Len(t) <= 1 THEN t
    ELSE IF IsSpace(t[1]) /\ IsSpace(t[2]) THEN Collapse(Tail(t))
    ELSE IF IsSpace(t[1]) THEN <<" ">> \o Collapse(Tail(t))
    ELSE <<t[1]>> \o Collapse(Tail(t))

\* Variant: the text is only stripped, runs of whitespace inside are kept.
clean_text_strip_only(text) == IF Strip(text) = <<>> THEN NAText ELSE Strip(text)

\* _clean_text: ' '.join(text.split()), "N/A" when nothing is left.
clean_text(text) ==
    IF text = <<>> THEN NAText
    ELSE LET cleaned == Collapse(Strip(text))
         IN IF cleaned # <<>> THEN Strip(cleaned) ELSE NAText

\* The marker words ('title', 'location', 'company', 'date') that the
\* lower-cased class name contains.
ClassWords(class) ==
    CASE class \in {"base-search-card__title", "job-title", "base-search-card__subtitle"} -> {"title"}
      [] class = "job-search-card__location" -> {"location"}
      [] class \in {"posted-date", "job-search-card__listdate"} -> {"date"}
      [] OTHER -> {}

NoAttrs == [a \in {} |-> <<>>]
Href(h) == [a \in {"href"} |-> h]
Datetime(v) == [a \in {"datetime"} |-> v]
Elem(tag, class, text, attrs) == [tag |-> tag, class |-> class, text |-> text, attrs |-> attrs]

\* The elements a card is made of, in document order; class "" is no class.
CardElements ==
    { Elem("h3", "base-search-card__title", <<>>, NoAttrs),
      Elem("h3", "base-search-card__title", <<"a", " ", " ", "b">>, NoAttrs),
      Elem("h3", "job-title", <<"c", "d">>, NoAttrs),
      Elem("h3", "", <<" ">>, NoAttrs),
      Elem("h3", "", <<"e">>, NoAttrs),
      Elem("h3", "", <<"e", "f">>, NoAttrs),
      Elem("a", "base-card__full-link", <<"g", "h">>, Href(<<"/", "j", "?", "t">>)),
      Elem("a", "base-card__full-link", <<"g", "h">>, NoAttrs),
      Elem("a", "", <<>>, Href(<<"/", "j", "o", "b", "s", "/", "v", "i", "e", "w", "/", "1">>)),
      Elem("a", "", <<>>, Href(<<"x">>)),
      Elem("h4", "base-search-card__subtitle", <<>>, NoAttrs),
      Elem("h4", "", <<"k">>, NoAttrs),
      Elem("a", "hidden-nested-link", <<"m">>, NoAttrs),
      Elem("span", "job-search-card__location", <<>>, NoAttrs),
      Elem("span", "base-search-card__metadata", <<"o">>, NoAttrs),
      Elem("time", "job-search-card__listdate", <<"q">>, Datetime(<<"2">>)),
      Elem("time", "", <<>>, NoAttrs),
      Elem("span", "posted-date", <<"r">>, NoAttrs) }

\* card.find found nothing.
NoElem == [tag |-> "None"]


\* a or b on the results of find: a Tag is true whatever its contents.
OrElse(a, b) == IF a # NoElem THEN a ELSE b

\* a or b or ... over the finds of a rule list.
RECURSIVE OrChain(_)
OrChain(found) ==
    IF found = <<>> THEN NoElem ELSE OrElse(Head(found), OrChain(Tail(found)))

HasAttr(e, name) == name \in DOMAIN e.attrs
\* elem.get(name): None, here the empty string, when the attribute is absent.
GetAttr(e, name) == IF HasAttr(e, name) THEN e.attrs[name] ELSE <<>>

HasSubstring(t, sub) ==
    \E i \in 1..(Len(t) - Len(sub) + 1) : SubSeq(t, i, i + Len(sub) - 1) = sub
JobsViewPath == <<"/", "j", "o", "b", "s", "/", "v", "i", "e", "w", "/">>

IsTag(e, tag) == e.tag = tag
HasClass(e, tag, class) == e.tag = tag /\ e.class = class
ClassContains(e, tag, word) == e.tag = tag /\ word \in ClassWords(e.class)

\* The arguments of a find call: a tag name and a filter.
ByTag(tag) == [tag |-> tag, filter |-> "none", arg |-> ""]
ByClass(tag, class) == [tag |-> tag, filter |-> "class_", arg |-> class]
ByClassWord(tag, word) == [tag |-> tag, filter |-> "class lambda", arg |-> word]
ByHrefPart(tag, part) == [tag |-> tag, filter |-> "href lambda", arg |-> part]
ByHref(tag) == [tag |-> tag, filter |-> "href=True", arg |-> ""]

Matches(e, rule) ==
    CASE rule.filter = "none" -> IsTag(e, rule.tag)
      [] rule.filter = "class_" -> HasClass(e, rule.tag, rule.arg)
      [] rule.filter = "class lambda" -> ClassContains(e, rule.tag, rule.arg)
      [] rule.filter = "href lambda" ->
            IsTag(e, rule.tag) /\ HasSubstring(GetAttr(e, "href"), rule.arg)
      [] rule.filter = "href=True" -> IsTag(e, rule.tag) /\ HasAttr(e, "href")

\* card.find(...): the first element in document order that the rule accepts.
Find(card, rule) ==
    LET hits == {i \in 1..Len(card) : Matches(card[i], rule)}
    IN IF hits = {} THEN NoElem
       ELSE card[CHOOSE i \in hits : \A k \in hits : i <= k]

title_rules(card) ==
    << Find(card, ByClass("h3", "base-search-card__title")),
       Find(card, ByClassWord("h3", "title")),
       Find(card, ByTag("h3")),
       Find(card, ByClass("a", "base-card__full-link")) >>

title_elem(card) == OrChain(title_rules(card))

company_rules(card) ==
    << Find(card, ByClass("h4", "base-search-card__subtitle")),
       Find(card, ByClass("a", "hidden-nested-link")),
       Find(card, ByTag("h4")),
       Find(card, ByClassWord("a", "company")) >>

company_elem(card) == OrChain(company_rules(card))

location_rules(card) ==
    << Find(card, ByClass("span", "job-search-card__location")),
       Find(card, ByClassWord("span", "location")),
       Find(card, ByClass("span", "base-search-card__metadata")) >>

location_elem(card) == OrChain(location_rules(card))

url_rules(card) ==
    << Find(card, ByClass("a", "base-card__full-link")),
       Find(card, ByHrefPart("a", JobsViewPath)),
       Find(card, ByHref("a")) >>

url_elem(card) == OrChain(url_rules(card))

date_rules(card) ==
    << Find(card, ByClass("time", "job-search-card__listdate")),
       Find(card, ByClass("time", "job-search-card__listdate--new")),
       Find(card, ByTag("time")),
       Find(card, ByClassWord("span", "date")) >>

date_elem(card) == OrChain(date_rules(card))

\* self._clean_text(elem.get_text()) if elem else "N/A"
TextOf(elem) == IF elem # NoElem THEN clean_text(elem.text) ELSE NAText

UrlOf(elem) ==
    IF elem # NoElem /\ GetAttr(elem, "href") # <<>>
    THEN NormalizeUrl(GetAttr(elem, "href"))
    ELSE NAText

DateOf(elem) ==
    IF elem = NoElem THEN NAText
    ELSE IF GetAttr(elem, "datetime") # <<>> THEN GetAttr(elem, "datetime")
    ELSE clean_text(elem.text)

\* A length test that lets every title through.
NeverTooShort(title) == FALSE
\* len(job_data['job_title']) < 2
TitleTooShort(title) == Len(title) < 2

\* What _parse_job_card returns, with job_data as it stands at the return.
parse_job_card(card) ==
    LET title == TextOf(title_elem(card))
        job_data == [job_title |-> title,
                     company |-> TextOf(company_elem(card)),
                     location |-> TextOf(location_elem(card)),
                     url |-> UrlOf(url_elem(card)),
                     posted_date |-> DateOf(date_elem(card))]
    IN IF title = NAText \/ TitleTooShort(title)
       THEN [isNone |-> TRUE, job_data |-> [job_title |-> title]]
       ELSE IF job_data.job_title # NAText /\ job_data.url # NAText
       THEN [isNone |-> FALSE, job_data |-> job_data]
       ELSE [isNone |-> TRUE, job_data |-> job_data]

InitCard ==
    /\ ScraperUnused
    /\ DedupIdle
    /\ call_pc = "call"
    /\ call_args \in [card : SeqsUpTo(CardElements, MaxCardElems)]
    /\ call_result = <<>>

ParseCard ==
    /\ call_pc = "call"
    /\ call_result' = parse_job_card(call_args.card)
    /\ call_pc' = "parsed"
    /\ UNCHANGED call_args
    /\ UNCHANGED scrapeVars
    /\ UNCHANGED fetchVars
    /\ UNCHANGED dedupVars

NextCard == ParseCard

SpecCard == InitCard /\ [][NextCard]_vars

\* ----------------------------------------------------------- fetch_job_page
LowerLetters == <<"a", "b", "c", "d", "e", "f", "g", "h", "i", "j", "k", "l", "m", "n", "o", "p", "q", "r", "s", "t", "u", "v", "w", "x", "y", "z">>
UpperLetters == <<"A", "B", "C", "D", "E", "F", "G", "H", "I", "J", "K", "L", "M", "N", "O", "P", "Q", "R", "S", "T", "U", "V", "W", "X", "Y", "Z">>
LetterIndex(c, letters) == CHOOSE i \in 1..Len(letters) : letters[i] = c
IsOneOf(c, letters) == \E i \in 1..Len(letters) : letters[i] = c

\* str.lower() and str.upper(), character by character.
Lower(t) == [i \in 1..Len(t) |->
                IF IsOneOf(t[i], UpperLetters) THEN LowerLetters[LetterIndex(t[i], UpperLetters)]
                ELSE t[i]]
Upper(t) == [i \in 1..Len(t) |->
                IF IsOneOf(t[i], LowerLetters) THEN UpperLetters[LetterIndex(t[i], LowerLetters)]
                ELSE t[i]]
Capitalized(t) == IF t = <<>> THEN t ELSE Upper(<<Head(t)>>) \o Tail(t)

\* EXPERIENCE_LEVELS: the keys in their written order, and their codes.
LevelNames ==
    << <<"i", "n", "t", "e", "r", "n", "s", "h", "i", "p">>,
       <<"e", "n", "t", "r", "y">>,
       <<"a", "s", "s", "o", "c", "i", "a", "t", "e">>,
       <<"m", "i", "d", "-", "s", "e", "n", "i", "o", "r">>,
       <<"d", "i", "r", "e", "c", "t", "o", "r">>,
       <<"e", "x", "e", "c", "u", "t", "i", "v", "e">> >>
LevelCodes == <<"1", "2", "3", "4", "5", "6">>
InLevels(t) == \E i \in 1..Len(LevelNames) : LevelNames[i] = t
LevelCode(t) == LevelCodes[CHOOSE i \in 1..Len(LevelNames) : LevelNames[i] = t]

\* Words that are not keys of EXPERIENCE_LEVELS.
OtherWords == {<<"s", "e", "n", "i", "o", "r">>, <<"a", "l", "l">>}

\* experience_level: None, the empty string, or a word in some casing.
NoLevel == [isNone |-> TRUE, text |-> <<>>]
LevelInputs ==
    {NoLevel, [isNone |-> FALSE, text |-> <<>>]}
    \cup {[isNone |-> FALSE, text |-> t] :
            t \in UNION {{w, Capitalized(w), Upper(w)} :
                            w \in {LevelNames[i] : i \in 1..Len(LevelNames)} \cup OtherWords}}

\* The offsets fetch_job_page is called with.
Offsets == {0, JOBS_PER_PAGE, 2 * JOBS_PER_PAGE}

\* if experience_level and experience_level.lower() in EXPERIENCE_LEVELS
LevelKnown(level) == ~level.isNone /\ level.text # <<>> /\ InLevels(Lower(level.text))

\* The params fetch_job_page hands to fetch_page; it raises nothing itself.
job_page_params(offset, level) ==
    IF LevelKnown(level)
    THEN [start |-> offset, has_f_E |-> TRUE, f_E |-> LevelCode(Lower(level.text)),
          rejected |-> FALSE]
    ELSE [start |-> offset, has_f_E |-> FALSE, f_E |-> "", rejected |-> FALSE]

InitFilter ==
    /\ ScraperUnused
    /\ DedupIdle
    /\ call_pc = "call"
    /\ call_args \in [start : Offsets, experience_level : LevelInputs]
    /\ call_result = <<>>

BuildParams ==
    /\ call_pc = "call"
    /\ call_result' = job_page_params(call_args.start, call_args.experience_level)
    /\ call_pc' = "requested"
    /\ UNCHANGED call_args
    /\ UNCHANGED scrapeVars
    /\ UNCHANGED fetchVars
    /\ UNCHANGED dedupVars

NextFilter == BuildParams

SpecFilter == InitFilter /\ [][NextFilter]_vars

\* ------------------------------------------- two scrape calls, one scraper
\* The lists a second scrape call on the same scraper can end with; its
\* locals (all_jobs, start, consecutive_empty) are its own frame's.
OtherCallLists == {<<>>, <<[url |-> "u2", ver |-> 2]>>}

\* The second call reaches self.jobs = all_jobs (the one write of scrape to
\* the scraper object) while the first call is anywhere in its run or done.
OtherScrapeStores(list) ==
    /\ pc \in {"loop", "fetch", "got", "wait", "post", "done"}
    /\ jobs' = list
    /\ UNCHANGED <<pc, max_retries, num_jobs, all_jobs, start, consecutive_empty,
                   html_content, waited, error, returned, job_title, served,
                   exported>>
    /\ UNCHANGED fetchVars
    /\ UNCHANGED <<show_progress_bar, pbar_closes, fetched>>
    /\ UNCHANGED dedupVars
    /\ UNCHANGED callVars

NextShared ==
    \/ \E n \in 0..MaxNumJobs, title \in ValidKeywords : ScrapeCall(n, title)
    \/ LoopTest
    \/ \E o \in LoopOutcomes : \E page \in LoopPagesFor(o) : GetAttempt(o, NoProbe, page)
    \/ RetriesExhausted
    \/ HandleNone
    \/ HandlePage
    \/ Wait
    \/ Finish
    \/ \E list \in OtherCallLists : OtherScrapeStores(list)
    \/ export_to_csv

SpecShared == Init /\ [][NextShared]_vars

\* ---------------------------------------------- parse_jobs and its try/except
\* What _parse_job_card does for one <li> of the page: it returns a record,
\* returns None, or raises an Exception.
CardOutcomes ==
    {[outcome |-> "record", job_data |-> r] : r \in ServedRecords}
    \cup {[outcome |-> "None", job_data |-> [url |-> NA, ver |-> 1]],
          [outcome |-> "raises", job_data |-> [url |-> NA, ver |-> 1]]}

\* html_content as parse_jobs sees it: the empty string, or markup whose
\* <li> elements are the candidates (possibly none).
EmptyMarkup == [empty |-> TRUE, cards |-> <<>>]
Markups ==
    {EmptyMarkup} \cup {[empty |-> FALSE, cards |-> cs] : cs \in SeqsUpTo(CardOutcomes, MaxCandidates)}

\* Variant: the first candidate that raises ends the loop.
StopAfterWarning(i, n) == n + 1
\* except Exception: warning, continue -- the index of the next candidate.
NextAfterWarning(i, n) == i + 1

\* for card in job_cards: try ... except Exception ... ; jobs and the number
\* of warnings logged when the loop is over.
RECURSIVE ParseJobsLoop(_, _, _, _)
ParseJobsLoop(job_cards, i, acc, warnings) ==
    IF i > Len(job_cards) THEN [raised |-> FALSE, jobs |-> acc, warnings |-> warnings]
    ELSE LET card == job_cards[i]
         IN CASE card.outcome = "record" ->
                    ParseJobsLoop(job_cards, i + 1, Append(acc, card.job_data), warnings)
              [] card.outcome = "None" ->
                    ParseJobsLoop(job_cards, i + 1, acc, warnings)
              [] card.outcome = "raises" ->
                    ParseJobsLoop(job_cards, NextAfterWarning(i, Len(job_cards)), acc, warnings + 1)

\* parse_jobs with the failures of _parse_job_card in view.
parse_jobs_guarded(markup) ==
    IF markup.empty THEN [raised |-> FALSE, jobs |-> <<>>, warnings |-> 0]
    ELSE ParseJobsLoop(markup.cards, 1, <<>>, 0)

InitParse ==
    /\ ScraperUnused
    /\ DedupIdle
    /\ call_pc = "call"
    /\ call_args \in [html_content : Markups]
    /\ call_result = <<>>

ParseJobsCall ==
    /\ call_pc = "call"
    /\ call_result' = parse_jobs_guarded(call_args.html_content)
    /\ call_pc' = "page parsed"
    /\ UNCHANGED call_args
    /\ UNCHANGED scrapeVars
    /\ UNCHANGED fetchVars
    /\ UNCHANGED dedupVars

NextParse == ParseJobsCall

SpecParse == InitParse /\ [][NextParse]_vars

\* ------------------------------------------------------ _clean_text alone
\* The characters a text is built from, and the texts handed to
\* _clean_text: every string over them up to the bound, and "N/A" itself.
TextChars == {" ", "\t", "a", "b"}
Texts == SeqsUpTo(TextChars, MaxTextLen) \cup {NAText}

InitClean ==
    /\ ScraperUnused
    /\ DedupIdle
    /\ call_pc = "call"
    /\ call_args \in [text : Texts]
    /\ call_result = <<>>

CleanCall ==
    /\ call_pc = "call"
    /\ call_result' = <<clean_text(call_args.text)>>
    /\ call_pc' = "cleaned"
    /\ UNCHANGED call_args
    /\ UNCHANGED scrapeVars
    /\ UNCHANGED fetchVars
    /\ UNCHANGED dedupVars

\* _clean_text applied to its own result.
CleanAgain ==
    /\ call_pc = "cleaned"
    /\ call_result' = Append(call_result, clean_text(call_result[1]))
    /\ call_pc' = "cleaned twice"
    /\ UNCHANGED call_args
    /\ UNCHANGED scrapeVars
    /\ UNCHANGED fetchVars
    /\ UNCHANGED dedupVars

NextClean == CleanCall \/ CleanAgain

SpecClean == InitClean /\ [][NextClean]_vars

\* ------------------------------------------- nothing asked, nothing tried
\* scrape with any number of jobs, zero and below included, on a scraper
\* whose config allows any number of attempts, zero and below included;
\* scrape may be called again after it returned.
LeastCount == 0 - MaxBelowZero
InitZero ==
    /\ pc = "idle"
    /\ max_retries \in LeastCount..MaxRetries
    /\ show_progress_bar = TRUE
    /\ NoRunYet
    /\ DedupIdle
    /\ CallIdle

NextZero ==
    \/ \E n \in LeastCount..MaxNumJobs, title \in ValidKeywords : ScrapeCall(n, title)
    \/ \E n \in LeastCount..MaxNumJobs, title \in ValidKeywords : ScrapeAgain(n, title)
    \/ LoopTestCounted
    \/ \E o \in LoopOutcomes : \E page \in LoopPagesFor(o) : GetAttempt(o, NoProbe, page)
    \/ RetriesExhausted
    \/ HandleNone
    \/ HandlePage
    \/ Wait
    \/ Finish

SpecZero == InitZero /\ [][NextZero]_vars

\* ================================================================= claims
IsResponse(o, status) == o.exc = "none" /\ o.status = status
Looping == pc \in {"loop", "fetch", "got", "wait"}
UniqueUrls(l) == \A i, j \in 1..Len(l) : i # j => l[i].url # l[j].url

\* C1: the list scrape returns never holds more than num_jobs records,
\* whatever the pages were.
C1_TrimInvariant == pc = "done" => Len(returned) <= num_jobs

\* A run whose last page alone held more distinct records than asked for,
\* returned exactly num_jobs of them.
C1_Witness ==
    /\ pc = "done"
    /\ num_jobs >= 1
    /\ ~html_content.isNone
    /\ Len(deduplicate_jobs(parse_jobs(html_content.cards))) > num_jobs
    /\ Len(returned) = num_jobs

\* C2: a GET answered with status 429 makes fetch_page raise RateLimitError
\* on that very attempt, and scrape ends with that error.
C2_RateLimitIsTerminal ==
    IsResponse(lastOutcome, 429) => (pc = "raised" /\ error = "RateLimitError")

\* C3: a GET answered with status 403 makes fetch_page raise
\* AccessBlockedError on that very attempt, never retrying.
C3_AccessBlockedIsTerminal ==
    IsResponse(lastOutcome, 403) => (pc = "raised" /\ error = "AccessBlockedError")

\* C4: a GET failing with requests' SSLError makes fetch_page raise the
\* scraper's SSLError on that attempt, with no connectivity probe and no retry.
C4_SSLErrorIsTerminal ==
    lastOutcome.exc = "SSLError" =>
        (pc = "raised" /\ error = "SSLError" /\ lastProbe = NoProbe)

\* C5: after a GET that fails with a connection error, fetch_page probes the
\* hosts in order; if no host connects it raises ConnectionError at once (no
\* sleep, no further GET), and if a host connects after hosts that refused,
\* the attempt counts as transient and the loop goes on.
C5_ProbeDecides ==
    [][ /\ (pc = "fetch" /\ gets' = gets + 1 /\ lastOutcome'.exc = "ConnectionError") =>
            /\ lastProbe' \in ProbeRuns
            /\ (\A h \in 1..NumProbeHosts : lastProbe'[h] # "ok") =>
                   /\ pc' = "raised"
                   /\ error' = "ConnectionError"
                   /\ sleeps' = sleeps
                   /\ attempt' = attempt
            /\ (\E h \in 1..NumProbeHosts :
                    /\ lastProbe'[h] = "ok"
                    /\ \A k \in 1..(h - 1) : lastProbe'[k] = "oserror") =>
                   /\ pc' = "fetch"
                   /\ error' = "none"
                   /\ attempt' = attempt + 1
                   /\ sleeps' = sleeps + (IF attempt < max_retries - 1 THEN 1 ELSE 0)
        /\ pc = "raised" => (gets' = gets /\ sleeps' = sleeps /\ pc' = "raised")
      ]_vars

\* A second attempt failed to connect, none of the three hosts answered, and
\* the call ended with ConnectionError after exactly one retry sleep.
C5_Witness ==
    /\ pc = "raised"
    /\ error = "ConnectionError"
    /\ lastOutcome.exc = "ConnectionError"
    /\ \A h \in 1..NumProbeHosts : lastProbe[h] = "oserror"
    /\ gets = 2
    /\ sleeps = 1

\* C6: a fetch_page call never issues more than max_retries GETs; when every
\* attempt fails transiently it issues exactly max_retries GETs with a sleep
\* between consecutive attempts and none after the last, then returns None;
\* a 200 response returns the page text on that attempt.
C6_RetryBudget ==
    /\ gets <= max_retries
    /\ pc = "fetch" =>
          /\ gets = attempt
          /\ sleeps = Min(attempt, Max(max_retries - 1, 0))
    /\ (pc = "got" /\ html_content.isNone /\ ~IsResponse(lastOutcome, 204)) =>
          /\ gets = max_retries
          /\ sleeps = Max(max_retries - 1, 0)
          /\ error = "none"
    /\ IsResponse(lastOutcome, 200) =>
          /\ ~html_content.isNone
          /\ pc \notin {"fetch", "raised"}

\* A call that timed out on its last attempt returned None after max_retries
\* GETs and one sleep fewer.
C6_Witness ==
    /\ pc = "got"
    /\ html_content.isNone
    /\ lastOutcome.exc = "Timeout"
    /\ max_retries >= 2
    /\ gets = max_retries
    /\ sleeps = max_retries - 1

\* C7: the consecutive-empty counter stays within 0..3 and the loop never
\* goes on with it at 3; a page without accepted records adds one to it and
\* ends the run when that makes 3, whatever was collected; a page with an
\* accepted record resets it to 0; once the loop is left nothing is fetched.
C7_StopOnEmptiness ==
    /\ [](consecutive_empty \in 0..max_consecutive_empty)
    /\ [](Looping => consecutive_empty < max_consecutive_empty)
    /\ [][ /\ (pc = "got" /\ ~html_content.isNone /\ parse_jobs(html_content.cards) = <<>>) =>
               /\ consecutive_empty' = consecutive_empty + 1
               /\ (consecutive_empty = 2) => (pc' = "post" /\ start' = start)
           /\ (pc = "got" /\ ~html_content.isNone /\ parse_jobs(html_content.cards) # <<>>) =>
               consecutive_empty' = 0
           /\ pc = "post" => (pc' = "done" /\ gets' = gets)
         ]_vars

\* Three pages in a row without accepted records ended a run that had
\* collected nothing towards a larger target.
C7_Witness ==
    /\ pc = "post"
    /\ consecutive_empty = 3
    /\ ~html_content.isNone
    /\ start = 2 * JOBS_PER_PAGE
    /\ all_jobs = <<>>
    /\ num_jobs = MaxNumJobs

\* C8: scrape returns fewer than num_jobs records only when the
\* consecutive-empty counter reached 3.
C8_ShortOnlyOnEmptiness ==
    (pc = "done" /\ Len(returned) < num_jobs) =>
        consecutive_empty >= max_consecutive_empty

\* C9: at every point of a scrape run no two records of all_jobs share a url.
C9_AccumulationUnique == UniqueUrls(all_jobs)

\* C10: _deduplicate_jobs keeps, for every url it keeps, exactly one record,
\* the first of the input with that url, in the input's order (so the result
\* is a subsequence of the input); every non-empty url of the input is kept;
\* applying it to its own result changes nothing.
FirstIndex(l, url) == CHOOSE i \in 1..Len(l) : l[i].url = url /\ \A k \in 1..(i - 1) : l[k].url # url
C10_DedupFirstSeen ==
    /\ dd_pc \in {"once", "twice"} =>
          /\ UniqueUrls(dd_once)
          /\ \A i \in 1..Len(dd_once) :
                /\ \E k \in 1..Len(dd_jobs) : dd_jobs[k].url = dd_once[i].url
                /\ dd_once[i] = dd_jobs[FirstIndex(dd_jobs, dd_once[i].url)]
          /\ \A i, j \in 1..Len(dd_once) :
                i < j => FirstIndex(dd_jobs, dd_once[i].url) < FirstIndex(dd_jobs, dd_once[j].url)
          /\ \A k \in 1..Len(dd_jobs) :
                dd_jobs[k].url # "" => \E i \in 1..Len(dd_once) : dd_once[i].url = dd_jobs[k].url
    /\ dd_pc = "twice" => dd_twice = dd_once

\* An input with the same url twice under different records, and another url
\* between them, was deduplicated and deduplicated again.
C10_Witness ==
    /\ dd_pc = "twice"
    /\ Len(dd_jobs) = 3
    /\ dd_jobs[1].url = dd_jobs[3].url
    /\ dd_jobs[1].url # ""
    /\ dd_jobs[1] # dd_jobs[3]
    /\ dd_jobs[2].url \notin {"", dd_jobs[1].url}
    /\ dd_once = <<dd_jobs[1], dd_jobs[2]>>

\* C11: the offset starts at 0, is always a non-negative multiple of 25,
\* changes only by +25 and only when a page was returned, does so in every
\* iteration with a returned page that does not stop on the empty threshold,
\* and an offset a page was returned for is never requested again.
C11_OffsetMonotone ==
    /\ [](start >= 0 /\ start % JOBS_PER_PAGE = 0)
    /\ [](pc = "fetch" => start \notin served)
    /\ [][ /\ (pc = "idle" /\ pc' = "loop") => start' = 0
           /\ start' # start => /\ start' = start + JOBS_PER_PAGE
                                /\ pc = "got"
                                /\ ~html_content.isNone
           /\ (pc = "got" /\ ~html_content.isNone
                 /\ consecutive_empty' < max_consecutive_empty) =>
                 /\ start' = start + JOBS_PER_PAGE
                 /\ served' = served \cup {start}
         ]_vars

\* Two pages were returned, for offsets 0 and 25, and the run now requests
\* offset 50.
C11_Witness ==
    /\ pc = "fetch"
    /\ start = 2 * JOBS_PER_PAGE
    /\ served = {0, JOBS_PER_PAGE}

TerminalErrors == {"RateLimitError", "AccessBlockedError", "SSLError", "ConnectionError"}
Range(l) == {l[i] : i \in 1..Len(l)}
UrlsOf(l) == {l[i].url : i \in 1..Len(l)}

\* C12: when a terminal transport failure ends scrape, the records accumulated
\* so far are available to the caller, as the result or in the jobs attribute.
C12_PartialResultsOnFailure ==
    (pc = "raised" /\ error \in TerminalErrors) =>
        (Range(all_jobs) \subseteq Range(jobs) \cup Range(returned))

\* C13: when an interrupt during the wait between iterations ends scrape, the
\* records collected so far are held deduplicated and trimmed to num_jobs in
\* the jobs attribute, and an export writes them.
C13_InterruptKeepsRecords ==
    (pc = "raised" /\ error = "KeyboardInterrupt" /\ waited = 1) =>
        /\ UrlsOf(all_jobs) \subseteq UrlsOf(jobs)
        /\ UniqueUrls(jobs)
        /\ Len(jobs) <= num_jobs
        /\ exported.called => (exported.path /\ exported.rows = jobs)

\* C14: in the two-page scenario scrape fetches exactly offsets 0 and 25,
\* ends with offset 50, holds 13 records of which 11 are distinct, and returns
\* the first 10 distinct records in encounter order: the 8 of page one, then
\* the first 2 new ones of page two.
ScenarioExpected == [i \in 1..10 |-> [url |-> ScenarioUrls[i], ver |-> 1]]
C14_TwoPageScenario ==
    /\ pc = "fetch" => start \in {0, JOBS_PER_PAGE}
    /\ pc = "post" =>
          /\ served = {0, JOBS_PER_PAGE}
          /\ start = 2 * JOBS_PER_PAGE
          /\ Len(all_jobs) = 13
          /\ Len(deduplicate_jobs(all_jobs)) = 11
    /\ pc = "done" =>
          /\ served = {0, JOBS_PER_PAGE}
          /\ start = 2 * JOBS_PER_PAGE
          /\ returned = ScenarioExpected
          /\ jobs = returned

\* The scenario ran to its end with the duplicates at the first two places of
\* page two.
C14_Witness ==
    /\ pc = "done"
    /\ num_jobs = 10
    /\ Len(html_content.cards) = 5
    /\ html_content.cards[1].ver = 2
    /\ html_content.cards[2].ver = 2
    /\ Len(returned) = 10

\* C15: no GET is ever issued for keywords that are empty or only
\* whitespace, whether scrape is reached through get_user_input or called
\* directly.
C15_NoRequestForEmptyKeywords == gets > 0 => Strip(job_title) # <<>>

\* C16: for every input string and every max_limit >= 1, validate_job_count
\* raises InputValidationError or returns n with 1 <= n <= max_limit, the
\* count returned for blank input included.
C16_CountWithinLimit ==
    call_pc = "returned" =>
        (call_result.num >= 1 /\ call_result.num <= call_args.max_limit)

\* The part of t before position i.
Before(t, i) == SubSeq(t, 1, i - 1)
FirstQuery(t) == CHOOSE i \in 1..(Len(t) + 1) :
                    /\ i <= Len(t) => t[i] = "?"
                    /\ \A k \in 1..(i - 1) : t[k] # "?"

\* C20: an href starting with '/' gets the origin in front, one not starting
\* with 'http' gets the origin and a '/', any other is kept, and everything
\* from the first '?' on is removed; the url starts with 'http', holds no
\* '?', and normalizing it again leaves it unchanged.
C20_UrlNormalization ==
    /\ call_pc \in {"normalized", "renormalized"} =>
          LET href == call_args.href
              url == call_result[1]
              prefixed == CASE href[1] = "/" -> LinkedInOrigin \o href
                            [] ~StartsWith(href, HttpPrefix) -> LinkedInOrigin \o <<"/">> \o href
                            [] OTHER -> href
          IN /\ url = Before(prefixed, FirstQuery(prefixed))
             /\ StartsWith(url, HttpPrefix)
             /\ \A i \in 1..Len(url) : url[i] # "?"
    /\ call_pc = "renormalized" => call_result[2] = call_result[1]

\* An href with a scheme-less path and a query string was normalized twice.
C20_Witness ==
    /\ call_pc = "renormalized"
    /\ call_args.href = <<"p", "?", "t">>
    /\ call_result[1] = LinkedInOrigin \o <<"/", "p">>

RecordFields == {"job_title", "company", "location", "url", "posted_date"}

\* C17: _parse_job_card returns a record only if its title is not "N/A",
\* has at least 2 characters and its url is not "N/A"; the record has
\* exactly the five fields job_title, company, location, url, posted_date.
C17_AcceptanceRule ==
    (call_pc = "parsed" /\ ~call_result.isNone) =>
        /\ DOMAIN call_result.job_data = RecordFields
        /\ call_result.job_data.job_title # NAText
        /\ Len(call_result.job_data.job_title) >= 2
        /\ call_result.job_data.url # NAText

\* A card with a two-letter heading and a link was returned as a record, its
\* fields without a matching element left at "N/A".
C17_Witness ==
    /\ call_pc = "parsed"
    /\ ~call_result.isNone
    /\ call_result.job_data.job_title = <<"e", "f">>
    /\ call_result.job_data.url = LinkedInOrigin \o <<"/", "j">>
    /\ call_result.job_data.location = NAText

\* The first of the values the rules yield, in rule order, that is not "N/A".
FirstYield(values) ==
    LET ys == {i \in 1..Len(values) : values[i] # NAText}
    IN IF ys = {} THEN NAText
       ELSE values[CHOOSE i \in ys : \A k \in ys : i <= k]
TextsOf(found) == [i \in 1..Len(found) |-> TextOf(found[i])]
UrlsOfLinks(found) == [i \in 1..Len(found) |-> UrlOf(found[i])]
DatesOf(found) == [i \in 1..Len(found) |-> DateOf(found[i])]
HasField(job_data, field) == field \in DOMAIN job_data

\* C18: each field takes its value from the first rule, in the listed order,
\* that yields non-empty text (for url a non-empty href); a rule whose
\* element has empty text or no href is passed over, and the field is "N/A"
\* only if no rule yields anything.
C18_FirstNonEmptyRuleWins ==
    call_pc = "parsed" =>
        LET card == call_args.card
            job_data == call_result.job_data
        IN /\ job_data.job_title = FirstYield(TextsOf(title_rules(card)))
           /\ HasField(job_data, "company") =>
                 job_data.company = FirstYield(TextsOf(company_rules(card)))
           /\ HasField(job_data, "location") =>
                 job_data.location = FirstYield(TextsOf(location_rules(card)))
           /\ HasField(job_data, "url") =>
                 job_data.url = FirstYield(UrlsOfLinks(url_rules(card)))
           /\ HasField(job_data, "posted_date") =>
                 job_data.posted_date = FirstYield(DatesOf(date_rules(card)))

\* C19: a card without an h3 of class base-search-card__title but with
\* another h3 whose text is not empty gets the normalized text of such a
\* heading as its title, never "N/A".
C19_HeadingFallback ==
    LET card == call_args.card
        primary == {i \in 1..Len(card) : HasClass(card[i], "h3", "base-search-card__title")}
        headings == {i \in 1..Len(card) : IsTag(card[i], "h3") /\ clean_text(card[i].text) # NAText}
    IN (call_pc = "parsed" /\ primary = {} /\ headings # {}) =>
          /\ call_result.job_data.job_title # NAText
          /\ \E i \in headings : call_result.job_data.job_title = clean_text(card[i].text)

\* An iteration of the loop of this run has ended.
IterationDone == served # {} \/ consecutive_empty > 0
\* The sleep owed after the iteration that just ended, in units of delay.
SleepOwed == IF html_content.isNone THEN 2 ELSE 1
EndsWith(l, tail) ==
    Len(l) >= Len(tail) /\ SubSeq(l, Len(l) - Len(tail) + 1, Len(l)) = tail

\* C21: fetches are strictly sequential and rate limited: a GET is issued
\* only inside the one fetch of the current iteration, the page of an
\* iteration is parsed and merged before the next fetch starts, the run
\* sleeps the delay after a returned page and twice the delay after a failed
\* fetch before it fetches again, and no sleep follows the iteration that
\* ends the run.
C21_SequentialRateLimited ==
    /\ [](pc = "wait" => waited = SleepOwed)
    /\ [][gets' > gets => (pc = "fetch" /\ gets' = gets + 1)]_vars
    /\ [][(pc = "loop" /\ pc' = "fetch" /\ IterationDone) =>
             /\ waited = SleepOwed
             /\ ~html_content.isNone =>
                   EndsWith(all_jobs, parse_jobs(html_content.cards))]_vars
    /\ [][(pc # "post" /\ pc' = "post") =>
             /\ waited' = 0
             /\ pc = "got" \/ (pc = "loop" /\ ~IterationDone)]_vars

\* A page was returned, the next fetch failed, and the run has slept twice
\* the delay before it tests the loop condition again.
C21_Witness ==
    /\ pc = "loop"
    /\ served # {}
    /\ consecutive_empty = 1
    /\ waited = 2

\* C22: an experience filter equal, ignoring case, to one of the six level
\* names adds f_E with that name's code 1..6; an absent filter adds no f_E;
\* a filter that is present and none of the six is rejected, never sent on
\* as an unfiltered query.
C22_FilterValidatedAndEncoded ==
    call_pc = "requested" =>
        LET level == call_args.experience_level
            absent == level.isNone \/ level.text = <<>>
            hits == {i \in 1..6 : ~absent /\ Lower(level.text) = LevelNames[i]}
        IN /\ hits # {} => (call_result.has_f_E /\ \A i \in hits : call_result.f_E = LevelCodes[i])
           /\ absent => (~call_result.has_f_E /\ ~call_result.rejected)
           /\ (~absent /\ hits = {}) => call_result.rejected

\* C23: two scrape calls interleaved on one scraper do not interfere: what a
\* call accumulates and returns is its own, and the records the jobs
\* attribute holds for export after a call are the ones that call returned,
\* whatever the other call wrote.
C23_CallsDoNotInterfere ==
    /\ pc = "done" => jobs = returned
    /\ (pc = "done" /\ exported.called) => exported.rows = returned

\* C24: when the fetch returned None and the counter stays below 3 after
\* its increment, scrape leaves the offset and the accumulated list as they
\* are, sleeps twice the delay and then fetches the same offset again.
C24_FailedFetchRetriesOffset ==
    /\ [][(pc = "got" /\ html_content.isNone
             /\ consecutive_empty + 1 < max_consecutive_empty) =>
             /\ pc' = "wait"
             /\ waited' = 2
             /\ start' = start
             /\ all_jobs' = all_jobs
             /\ served' = served]_vars
    /\ [][(pc \in {"wait", "loop"} /\ waited = 2) =>
             /\ start' = start
             /\ all_jobs' = all_jobs
             /\ pc' = IF pc = "wait" THEN "loop" ELSE "fetch"]_vars

\* After a returned page and two failed fetches the run fetches offset 25,
\* for which no page was returned yet, once more.
C24_Witness ==
    /\ pc = "fetch"
    /\ consecutive_empty = 2
    /\ start = JOBS_PER_PAGE
    /\ served = {0}
    /\ all_jobs # <<>>

\* C25: a failed fetch and a page without accepted records each add one to
\* the same counter and neither resets it, so three such iterations in a
\* row, in any mix and order, end the loop.
C25_FailuresAndEmptyPagesConflated ==
    /\ [][(pc = "got" /\ (html_content.isNone \/ parse_jobs(html_content.cards) = <<>>)) =>
             /\ consecutive_empty' = consecutive_empty + 1
             /\ consecutive_empty' >= max_consecutive_empty => pc' = "post"
             /\ all_jobs' = all_jobs]_vars
    /\ [][(pc = "got" /\ pc' = "wait") =>
             consecutive_empty' < max_consecutive_empty]_vars
    /\ [](Looping => consecutive_empty < max_consecutive_empty)

\* A run ended by two empty pages and one failed fetch, the last iteration
\* being a page.
C25_Witness ==
    /\ pc = "post"
    /\ consecutive_empty = max_consecutive_empty
    /\ served = {0, JOBS_PER_PAGE}
    /\ ~html_content.isNone
    /\ all_jobs = <<>>

IsRecordOutcome(card) == card.outcome = "record"
Raises(card) == card.outcome = "raises"
JobDataOf(cards) == [i \in 1..Len(cards) |-> cards[i].job_data]

\* C26: a candidate for which _parse_job_card raises is skipped with one
\* warning and every other candidate is still processed: the result holds,
\* in document order, exactly the records of the candidates that are
\* accepted; parse_jobs never raises and returns [] for empty markup.
C26_CandidateFailuresIsolated ==
    call_pc = "page parsed" =>
        LET cards == call_args.html_content.cards
        IN /\ ~call_result.raised
           /\ call_result.jobs = JobDataOf(SelectSeq(cards, IsRecordOutcome))
           /\ call_result.warnings = Len(SelectSeq(cards, Raises))
           /\ call_args.html_content.empty => call_result.jobs = <<>>

\* A page whose first candidate raises and whose later candidates are a
\* record and a rejected card: the record is returned, one warning logged.
C26_Witness ==
    /\ call_pc = "page parsed"
    /\ Len(call_args.html_content.cards) = 3
    /\ call_args.html_content.cards[1].outcome = "raises"
    /\ call_args.html_content.cards[2].outcome = "record"
    /\ call_args.html_content.cards[3].outcome = "None"
    /\ call_result.jobs = <<call_args.html_content.cards[2].job_data>>
    /\ call_result.warnings = 1

\* The words of a text: its maximal runs of characters that are not
\* whitespace, in order.
FirstWordLen(s) ==
    CHOOSE n \in 1..Len(s) :
        /\ \A k \in 1..n : ~IsSpace(s[k])
        /\ n < Len(s) => IsSpace(s[n + 1])
RECURSIVE Words(_)
Words(t) ==
    LET s == LStrip(t)
    IN IF s = <<>> THEN <<>>
       ELSE <<SubSeq(s, 1, FirstWordLen(s))>> \o Words(SubSeq(s, FirstWordLen(s) + 1, Len(s)))
RECURSIVE JoinWithSpace(_)
JoinWithSpace(ws) ==
    IF ws = <<>> THEN <<>>
    ELSE IF Len(ws) = 1 THEN ws[1]
    ELSE ws[1] \o <<" ">> \o JoinWithSpace(Tail(ws))

\* C27: _clean_text joins the words of the text with single spaces and
\* returns "N/A" when there is no word; the result is never empty, has no
\* whitespace at either end, no doubled space and no other whitespace
\* character, and cleaning it again leaves it as it is.
C27_CleanTextNormalizes ==
    /\ call_pc \in {"cleaned", "cleaned twice"} =>
          LET t == call_args.text
              r == call_result[1]
          IN /\ r = IF Words(t) = <<>> THEN NAText ELSE JoinWithSpace(Words(t))
             /\ r # <<>>
             /\ ~IsSpace(r[1]) /\ ~IsSpace(r[Len(r)])
             /\ \A i \in 1..Len(r) : IsSpace(r[i]) => (r[i] = " " /\ ~IsSpace(r[i + 1]))
    /\ call_pc = "cleaned twice" => call_result[2] = call_result[1]

\* A text with a leading tab and a run of two spaces between its words was
\* cleaned twice.
C27_Witness ==
    /\ call_pc = "cleaned twice"
    /\ call_args.text = <<"\t", "a", " ", " ", "b">>
    /\ call_result[1] = <<"a", " ", "b">>

\* C28: scrape terminates whatever the pages are, as long as every fetch
\* returns: the iterations that ended number at most three per accumulated
\* record plus the current count of consecutive empty ones, so a run makes
\* at most 3 * num_jobs fetch_job_page calls (none for num_jobs = 0), and
\* every run that started reaches its return.
C28_ScrapeTerminates ==
    /\ [](fetched <= 3 * num_jobs)
    /\ [](pc \in {"loop", "wait", "post"} =>
             fetched <= 3 * Len(all_jobs) + consecutive_empty)
    /\ (pc = "loop") ~> (pc = "done")

\* A run for two records that needed all six fetches: two empty iterations
\* before each of its two pages with one record.
C28_Witness ==
    /\ pc = "done"
    /\ num_jobs = 2
    /\ fetched = 6
    /\ Len(returned) = 2

\* C29: an exception that leaves scrape leaves the jobs attribute as it was
\* before the call (only the return path writes it), so an export after it
\* writes the records of the earlier run or nothing; and the progress bar,
\* when enabled, is closed exactly once on every way out of the loop.
C29_ExitLeavesJobsClosesBar ==
    /\ [][jobs' # jobs => (pc = "post" /\ pc' = "done")]_vars
    /\ [][pc' = "raised" => jobs' = jobs]_vars
    /\ []((pc = "raised" /\ exported.called) =>
            (exported.rows = jobs /\ exported.path = (jobs # <<>>)))
    /\ [](pc \in {"loop", "fetch", "got", "wait"} => pbar_closes = 0)
    /\ [](pc \in {"post", "done", "raised"} =>
            pbar_closes = IF show_progress_bar THEN 1 ELSE 0)

\* A second call on a scraper that holds the records of its first run was
\* interrupted after accumulating a page; the bar was closed once and the
\* export wrote the records of the first run.
C29_Witness ==
    /\ pc = "raised"
    /\ error = "KeyboardInterrupt"
    /\ show_progress_bar
    /\ pbar_closes = 1
    /\ all_jobs # <<>>
    /\ jobs # <<>>
    /\ jobs # all_jobs
    /\ exported.called
    /\ exported.rows = jobs


\* A response with an HTTP status below 400 other than 200.
OtherStatus(o) == o.exc = "none" /\ o.status # 200 /\ o.status >= 100 /\ o.status < 400

\* C30: a GET answered with a status that is neither 200 nor an error status
\* makes fetch_page return None on that attempt, with no further GET and no
\* sleep even when attempts remain, and scrape counts one failed fetch.
C30_OtherStatusReturnsNoneAtOnce ==
    /\ [][(pc = "fetch" /\ gets' = gets + 1 /\ OtherStatus(lastOutcome')) =>
             /\ pc' = "got"
             /\ html_content' = NoneHtml
             /\ sleeps' = sleeps
             /\ attempt' = attempt
             /\ error' = "none"]_vars
    /\ []((pc = "got" /\ OtherStatus(lastOutcome)) =>
             (html_content.isNone /\ gets = attempt + 1))
    /\ [][(pc = "got" /\ OtherStatus(lastOutcome)) =>
             /\ consecutive_empty' = consecutive_empty + 1
             /\ start' = start
             /\ all_jobs' = all_jobs]_vars

\* The first of two allowed attempts is answered 204 and fetch_page has
\* returned after that one GET.
C30_Witness ==
    /\ pc = "got"
    /\ lastOutcome = [exc |-> "none", status |-> 204]
    /\ max_retries = MaxRetries
    /\ attempt = 0
    /\ gets = 1
    /\ sleeps = 0
    /\ html_content.isNone

\* C31: scrape called with num_jobs <= 0 goes from the loop test straight to
\* the end: no fetch, no sleep, the empty list returned and stored in jobs,
\* whatever jobs held before.  fetch_page with max_retries <= 0 issues no
\* GET, takes no sleep and returns None.
C31_NothingAskedNothingTried ==
    /\ []((num_jobs <= 0 /\ pc # "idle") =>
             (pc \in {"loop", "post", "done"} /\ fetched = 0 /\ all_jobs = <<>>))
    /\ [][(num_jobs <= 0 /\ pc = "loop") =>
             (pc' = "post" /\ waited' = 0 /\ UNCHANGED fetchVars)]_vars
    /\ [][(num_jobs <= 0 /\ pc = "post") =>
             (pc' = "done" /\ jobs' = <<>> /\ returned' = <<>>
                /\ waited' = 0 /\ UNCHANGED fetchVars)]_vars
    /\ []((num_jobs <= 0 /\ pc = "done") => (jobs = <<>> /\ returned = <<>>))
    /\ []((max_retries <= 0 /\ pc \in {"fetch", "got"}) => (gets = 0 /\ sleeps = 0))
    /\ [][(max_retries <= 0 /\ pc = "fetch") =>
             (pc' = "got" /\ html_content' = NoneHtml)]_vars

\* A call with num_jobs below zero stands after its loop test, about to
\* store its result, on a scraper whose jobs an earlier call filled.
C31_Witness ==
    /\ pc = "post"
    /\ num_jobs < 0
    /\ fetched = 0
    /\ jobs # <<>>
    /\ all_jobs = <<>>

====
